---- MODULE Spec2Model ----
(***************************************************************************)
(* A model of the neural-network trainer (src/src/training/trainer.rs) and *)
(* of the GUI's training orchestration (src/src/gui.rs).                   *)
(*                                                                         *)
(* Arrays (Vec, Array1, slices) are functions over 0..n-1, so that every   *)
(* index of the model is the index of the source.  An f32 is a fixed-point *)
(* number: the integer v stands for v / Scale.                             *)
(***************************************************************************)
EXTENDS Integers, Sequences, FiniteSets, TLC

\* ------------------------------------------------------------------------
\* Bounds of the model
\* ------------------------------------------------------------------------
Scale == 8          \* fixed-point unit: 1.0 is Scale
MaxEpochs == 2      \* largest `epochs` argument / config.epochs explored
NumSeeds == 2       \* how many outcomes of the random initialisation are explored
MaxThreads == 2     \* how many training threads the GUI may spawn in a run
MaxFrames == 3      \* how many frames (calls of update) a run of the GUI has

\* ------------------------------------------------------------------------
\* Arrays
\* ------------------------------------------------------------------------
Size(a) == Cardinality(DOMAIN a)

\* the array f with every element evaluated, once
RECURSIVE VecTo(_, _)
VecTo(f, n) == IF n = 0 THEN <<>> ELSE VecTo(f, n - 1) @@ ((n - 1) :> f[n - 1])

Vec(f) == VecTo(f, Size(f))

\* F applied to the value of v, with v evaluated once
Bind(v, F(_)) == CHOOSE r \in {F(x) : x \in {v}} : TRUE

Arr(s) == Vec([i \in 0..(Len(s) - 1) |-> s[i + 1]])

Max(a, b) == IF a >= b THEN a ELSE b

Min(a, b) == IF a <= b THEN a ELSE b

RECURSIVE SumTo(_, _)
SumTo(a, n) == IF n = 0 THEN 0 ELSE a[n - 1] + SumTo(a, n - 1)

Sum(a) == SumTo(a, Size(a))

\* f32 product of two fixed-point numbers
Mul(a, b) == (a * b) \div Scale

\* ------------------------------------------------------------------------
\* Activation library (crate::network::activation) and f32::ln
\* ------------------------------------------------------------------------
\* e^x: second-order expansion for x >= 0, reciprocal for x < 0; always > 0
RECURSIVE Exp(_)
Exp(x) ==
    IF x >= 0 THEN Scale + x + (x * x) \div (2 * Scale)
    ELSE Max(1, (Scale * Scale) \div Exp(-x))

\* sigmoid(x) = 1 / (1 + e^-x)
sigmoid(x) == (Scale * Scale) \div (Scale + Exp(-x))

\* sigmoid_derivative(x) = sigmoid(x) * (1 - sigmoid(x))
sigmoid_derivative(x) == Mul(sigmoid(x), Scale - sigmoid(x))

\* softmax(v)_i = e^{v_i} / sum_j e^{v_j}, over the whole vector
softmax(v) ==
    LET e == Vec([i \in DOMAIN v |-> Exp(v[i])])
        total == Sum(e)
    IN  Vec([i \in DOMAIN v |-> (e[i] * Scale) \div total])

\* natural logarithm of a positive number: ln(2x) = ln(x) + ln 2, linear on [1, 2)
RECURSIVE LnPos(_)
LnPos(x) ==
    IF x >= 2 * Scale THEN LnPos(x \div 2) + (7 * Scale) \div 10
    ELSE IF x >= Scale THEN ((x - Scale) * 7) \div 10
    ELSE LnPos(2 * x) - (7 * Scale) \div 10

\* (x + 1e-12).ln(): 1e-12 is below the fixed-point unit, ln(1e-12) = -27.6
LnEps(x) == IF x <= 0 THEN -(28 * Scale) ELSE LnPos(x)

\* ------------------------------------------------------------------------
\* Network model (crate::network::layer)
\* ------------------------------------------------------------------------
Neuron(w, b) ==
    [weights |-> w, bias |-> b, raw_value |-> 0, activated_value |-> 0, delta |-> 0]

\* Layer::activated_values
activated_values(layer) ==
    Vec([i \in DOMAIN layer.neurons |-> layer.neurons[i].activated_value])

\* Array1::dot panics unless both vectors have the same length
DotPanics(w, a) == Size(w) # Size(a)

Dot(w, a) == Sum([i \in DOMAIN w |-> Mul(w[i], a[i])])

NumLayers(ls) == Size(ls)

\* weight j of neuron n of layer l, as the random initialisation with seed s draws it
InitWeight(s, l, n, j) == (((3 * s + 2 * l + n + 2 * j) % 5) - 2) * (Scale \div 2)

InitBias(s, l, n) == (((s + l + 2 * n) % 3) - 1) * (Scale \div 4)

\* initialize_network(&config.layers, &activations): one layer per entry of
\* `sizes`; a neuron of layer l > 0 has one weight per neuron of layer l - 1,
\* an input neuron has none; layer l > 0 carries activations[l - 1]
initialize_network(sizes, acts, s) ==
    Vec([l \in DOMAIN sizes |->
        [neurons |->
            Vec([n \in 0..(sizes[l] - 1) |->
                IF l = 0 THEN Neuron(<<>>, 0)
                ELSE Neuron(Vec([j \in 0..(sizes[l - 1] - 1) |-> InitWeight(s, l, n, j)]),
                            InitBias(s, l, n))]),
         activation |-> IF l = 0 \/ (l - 1) \notin DOMAIN acts THEN "sigmoid"
                        ELSE acts[l - 1]]])

\* ------------------------------------------------------------------------
\* forward_pass, step by step
\* ------------------------------------------------------------------------
\* inputs[i] panics when i is out of bounds; layers[0] panics on an empty slice
FwdInputPanics(ls, inputs) ==
    \/ NumLayers(ls) = 0
    \/ \E i \in DOMAIN ls[0].neurons : i \notin DOMAIN inputs

\* a variant that rejects every input whose length is not the layer-0 size
FwdInputPanics_Strict(ls, inputs) ==
    \/ NumLayers(ls) = 0
    \/ Size(ls[0].neurons) # Size(inputs)

\* lines 11-14: layer 0 takes the inputs as raw and activated value
FwdInput(ls, inputs) ==
    [ls EXCEPT ![0].neurons =
        Vec([i \in DOMAIN ls[0].neurons |->
            [ls[0].neurons[i] EXCEPT !.raw_value = inputs[i],
                                     !.activated_value = inputs[i]]])]

FwdLayerPanics(ls, l) ==
    \E n \in DOMAIN ls[l].neurons :
        DotPanics(ls[l].neurons[n].weights, activated_values(ls[l - 1]))

\* a variant that applies the sigmoid in the output layer too
FwdLayer_AllSigmoid(ls, l) ==
    LET prev_activations == activated_values(ls[l - 1])
    IN  [ls EXCEPT ![l].neurons =
            Vec([n \in DOMAIN ls[l].neurons |->
                LET neuron == ls[l].neurons[n]
                    weighted_sum == Dot(neuron.weights, prev_activations) + neuron.bias
                IN  [neuron EXCEPT !.raw_value = weighted_sum,
                                   !.activated_value = sigmoid(weighted_sum)]])]

\* lines 17-29 with `+=` for `=` at line 23: the sum is added to the old raw value
FwdLayer_Accumulates(ls, l) ==
    LET prev_activations == activated_values(ls[l - 1])
        is_not_output == l < NumLayers(ls) - 1
    IN  [ls EXCEPT ![l].neurons =
            Vec([n \in DOMAIN ls[l].neurons |->
                LET neuron == ls[l].neurons[n]
                    weighted_sum == neuron.raw_value
                                        + Dot(neuron.weights, prev_activations) + neuron.bias
                IN  [neuron EXCEPT !.raw_value = weighted_sum,
                                   !.activated_value =
                                       IF is_not_output THEN sigmoid(weighted_sum)
                                       ELSE weighted_sum]])]

\* lines 17-29 with the bias consumed: it is cleared once it has been added
FwdLayer_ClearsBias(ls, l) ==
    LET prev_activations == activated_values(ls[l - 1])
        is_not_output == l < NumLayers(ls) - 1
    IN  [ls EXCEPT ![l].neurons =
            Vec([n \in DOMAIN ls[l].neurons |->
                LET neuron == ls[l].neurons[n]
                    weighted_sum == Dot(neuron.weights, prev_activations) + neuron.bias
                IN  [neuron EXCEPT !.raw_value = weighted_sum,
                                   !.bias = 0,
                                   !.activated_value =
                                       IF is_not_output THEN sigmoid(weighted_sum)
                                       ELSE weighted_sum]])]

\* lines 17-29: one iteration of `for l in 1..total_layers`
FwdLayer(ls, l) ==
    LET prev_activations == activated_values(ls[l - 1])
        is_not_output == l < NumLayers(ls) - 1
    IN  [ls EXCEPT ![l].neurons =
            Vec([n \in DOMAIN ls[l].neurons |->
                LET neuron == ls[l].neurons[n]
                    weighted_sum == Dot(neuron.weights, prev_activations) + neuron.bias
                IN  [neuron EXCEPT !.raw_value = weighted_sum,
                                   !.activated_value =
                                       IF is_not_output THEN sigmoid(weighted_sum)
                                       ELSE weighted_sum]])]

\* lines 33-43 with the sigmoid of each output neuron's own raw value
FwdSoftmax_Elementwise(ls) ==
    LET output_index == NumLayers(ls) - 1
    IN  [ls EXCEPT ![output_index].neurons =
            Vec([n \in DOMAIN ls[output_index].neurons |->
                [ls[output_index].neurons[n] EXCEPT
                    !.activated_value = sigmoid(ls[output_index].neurons[n].raw_value)]])]

\* lines 33-43: softmax over the raw values of the whole output layer
FwdSoftmax(ls) ==
    LET output_index == NumLayers(ls) - 1
        raw_outputs == Vec([n \in DOMAIN ls[output_index].neurons |->
                            ls[output_index].neurons[n].raw_value])
        softmax_values == softmax(raw_outputs)
    IN  [ls EXCEPT ![output_index].neurons =
            Vec([n \in DOMAIN ls[output_index].neurons |->
                [ls[output_index].neurons[n] EXCEPT
                    !.activated_value = softmax_values[n]]])]

RECURSIVE FwdLayersFrom(_, _)
FwdLayersFrom(ls, l) ==
    IF l >= NumLayers(ls) THEN ls
    ELSE Bind(FwdLayer(ls, l), LAMBDA next : FwdLayersFrom(next, l + 1))

RECURSIVE FwdLayersPanicFrom(_, _)
FwdLayersPanicFrom(ls, l) ==
    IF l >= NumLayers(ls) THEN FALSE
    ELSE FwdLayerPanics(ls, l)
            \/ Bind(FwdLayer(ls, l), LAMBDA next : FwdLayersPanicFrom(next, l + 1))

\* the whole call
ForwardPassPanics(ls, inputs) ==
    \/ FwdInputPanics(ls, inputs)
    \/ Bind(FwdInput(ls, inputs), LAMBDA first : FwdLayersPanicFrom(first, 1))

ForwardPass(ls, inputs) ==
    Bind(FwdInput(ls, inputs), LAMBDA first :
        Bind(FwdLayersFrom(first, 1), LAMBDA last : FwdSoftmax(last)))

\* ------------------------------------------------------------------------
\* back_propagate, step by step
\* ------------------------------------------------------------------------
\* targets[i] panics when i is out of bounds; layers.len() - 1 underflows on []
BpOutputPanics(ls, targets) ==
    \/ NumLayers(ls) = 0
    \/ \E i \in DOMAIN ls[NumLayers(ls) - 1].neurons : i \notin DOMAIN targets

\* lines 49-51
BpOutputDelta(ls, targets) ==
    LET output_index == NumLayers(ls) - 1
    IN  [ls EXCEPT ![output_index].neurons =
            Vec([i \in DOMAIN ls[output_index].neurons |->
                LET neuron == ls[output_index].neurons[i]
                IN  [neuron EXCEPT !.delta = neuron.activated_value - targets[i]]])]

\* weights[j] panics when a next-layer neuron has fewer weights than layer l has neurons
BpHiddenPanics(ls, l) ==
    \E j \in DOMAIN ls[l].neurons : \E k \in DOMAIN ls[l + 1].neurons :
        j \notin DOMAIN ls[l + 1].neurons[k].weights

\* lines 54-60: one iteration of `for l in (1..output_index).rev()`
BpHiddenDelta(ls, l) ==
    LET next_layer_deltas == Vec([k \in DOMAIN ls[l + 1].neurons |-> ls[l + 1].neurons[k].delta])
        next_layer_weights == Vec([k \in DOMAIN ls[l + 1].neurons |-> ls[l + 1].neurons[k].weights])
    IN  [ls EXCEPT ![l].neurons =
            Vec([j \in DOMAIN ls[l].neurons |->
                LET neuron == ls[l].neurons[j]
                    sum == Sum([k \in DOMAIN next_layer_deltas |->
                                    Mul(next_layer_deltas[k], next_layer_weights[k][j])])
                IN  [neuron EXCEPT
                        !.delta = Mul(sum, sigmoid_derivative(neuron.raw_value))]])]

\* &prev_activations * delta and &weights - &gradient panic on different lengths
BpUpdatePanics(ls, l) ==
    \E n \in DOMAIN ls[l].neurons :
        Size(ls[l].neurons[n].weights) # Size(ls[l - 1].neurons)

\* lines 64-71 with the layer's raw and activated values recomputed from the
\* weights and the bias just written
BpUpdate_Reactivates(ls, l, learning_rate) ==
    LET prev_activations == activated_values(ls[l - 1])
        is_not_output == l < NumLayers(ls) - 1
    IN  [ls EXCEPT ![l].neurons =
            Vec([n \in DOMAIN ls[l].neurons |->
                LET neuron == ls[l].neurons[n]
                    gradient == Vec([j \in DOMAIN prev_activations |->
                                    Mul(prev_activations[j], neuron.delta)])
                    bias == neuron.bias - Mul(learning_rate, neuron.delta)
                    weights == Vec([j \in DOMAIN neuron.weights |->
                                    neuron.weights[j] - Mul(gradient[j], learning_rate)])
                    weighted_sum == Dot(weights, prev_activations) + bias
                IN  [neuron EXCEPT
                        !.bias = bias,
                        !.weights = weights,
                        !.raw_value = weighted_sum,
                        !.activated_value = IF is_not_output THEN sigmoid(weighted_sum)
                                            ELSE weighted_sum]])]

\* lines 64-71: one iteration of `for l in 1..layers.len()`
BpUpdate(ls, l, learning_rate) ==
    LET prev_activations == activated_values(ls[l - 1])
    IN  [ls EXCEPT ![l].neurons =
            Vec([n \in DOMAIN ls[l].neurons |->
                LET neuron == ls[l].neurons[n]
                    gradient == Vec([j \in DOMAIN prev_activations |->
                                    Mul(prev_activations[j], neuron.delta)])
                IN  [neuron EXCEPT
                        !.bias = neuron.bias - Mul(learning_rate, neuron.delta),
                        !.weights = Vec([j \in DOMAIN neuron.weights |->
                                        neuron.weights[j] - Mul(gradient[j], learning_rate)])]])]

RECURSIVE BpHiddenFrom(_, _)
BpHiddenFrom(ls, l) ==
    IF l < 1 THEN ls
    ELSE Bind(BpHiddenDelta(ls, l), LAMBDA next : BpHiddenFrom(next, l - 1))

RECURSIVE BpHiddenPanicFrom(_, _)
BpHiddenPanicFrom(ls, l) ==
    IF l < 1 THEN FALSE
    ELSE BpHiddenPanics(ls, l)
            \/ Bind(BpHiddenDelta(ls, l), LAMBDA next : BpHiddenPanicFrom(next, l - 1))

RECURSIVE BpUpdateFrom(_, _, _)
BpUpdateFrom(ls, l, learning_rate) ==
    IF l >= NumLayers(ls) THEN ls
    ELSE Bind(BpUpdate(ls, l, learning_rate),
              LAMBDA next : BpUpdateFrom(next, l + 1, learning_rate))

RECURSIVE BpUpdatePanicFrom(_, _, _)
BpUpdatePanicFrom(ls, l, learning_rate) ==
    IF l >= NumLayers(ls) THEN FALSE
    ELSE BpUpdatePanics(ls, l)
            \/ Bind(BpUpdate(ls, l, learning_rate),
                    LAMBDA next : BpUpdatePanicFrom(next, l + 1, learning_rate))

\* all deltas of a call, from the network as the call found it
AllDeltas(ls, targets) ==
    Bind(BpOutputDelta(ls, targets), LAMBDA out : BpHiddenFrom(out, NumLayers(ls) - 2))

\* the whole call
BackPropagatePanics(ls, targets, learning_rate) ==
    \/ BpOutputPanics(ls, targets)
    \/ Bind(BpOutputDelta(ls, targets),
            LAMBDA out : BpHiddenPanicFrom(out, NumLayers(ls) - 2))
    \/ Bind(AllDeltas(ls, targets),
            LAMBDA all : BpUpdatePanicFrom(all, 1, learning_rate))

BackPropagate(ls, targets, learning_rate) ==
    Bind(AllDeltas(ls, targets), LAMBDA all : BpUpdateFrom(all, 1, learning_rate))

\* lines 75-83: zip stops at the shorter of the output layer and the targets
calculate_loss(ls, targets) ==
    LET output_index == NumLayers(ls) - 1
        both == DOMAIN ls[output_index].neurons \cap DOMAIN targets
    IN  Sum([i \in 0..(Cardinality(both) - 1) |->
                -Mul(targets[i], LnEps(ls[output_index].neurons[i].activated_value))])

\* ------------------------------------------------------------------------
\* Evaluation (crate::metrics::accuracy) and prediction
\* ------------------------------------------------------------------------
\* Iterator::max_by keeps the last of several equal maxima; 0 on an empty layer
RECURSIVE ArgmaxTo(_, _)
ArgmaxTo(a, n) ==
    IF n <= 1 THEN 0
    ELSE LET best == ArgmaxTo(a, n - 1)
         IN  IF a[n - 1] >= a[best] THEN n - 1 ELSE best

Argmax(a) == ArgmaxTo(a, Size(a))

\* target.iter().position(|&v| v == 1.0).unwrap_or(0)
RECURSIVE PositionOfOneFrom(_, _)
PositionOfOneFrom(target, i) ==
    IF i >= Size(target) THEN 0
    ELSE IF target[i] = Scale THEN i
    ELSE PositionOfOneFrom(target, i + 1)

ActualLabel(target) == PositionOfOneFrom(target, 0)

\* the network after the forward passes over set[i..]
RECURSIVE EvaluateLayersFrom(_, _, _)
EvaluateLayersFrom(ls, set, i) ==
    IF i >= Size(set) THEN ls
    ELSE Bind(ForwardPass(ls, set[i].inputs),
              LAMBDA after : EvaluateLayersFrom(after, set, i + 1))

RECURSIVE EvaluatePanicsFrom(_, _, _)
EvaluatePanicsFrom(ls, set, i) ==
    IF i >= Size(set) THEN FALSE
    ELSE ForwardPassPanics(ls, set[i].inputs)
            \/ Bind(ForwardPass(ls, set[i].inputs),
                    LAMBDA after : EvaluatePanicsFrom(after, set, i + 1))

RECURSIVE CorrectFrom(_, _, _)
CorrectFrom(ls, set, i) ==
    IF i >= Size(set) THEN 0
    ELSE Bind(ForwardPass(ls, set[i].inputs), LAMBDA after :
            (IF Argmax(activated_values(after[NumLayers(after) - 1]))
                    = ActualLabel(set[i].target)
             THEN 1 ELSE 0) + CorrectFrom(after, set, i + 1))

EvaluatePanics(ls, set) == EvaluatePanicsFrom(ls, set, 0)

\* evaluate(layers, set): the percentage of correctly predicted samples
EvaluateAccuracy(ls, set) ==
    IF Size(set) = 0 THEN 0 ELSE (100 * CorrectFrom(ls, set, 0)) \div Size(set)

EvaluateLayers(ls, set) == EvaluateLayersFrom(ls, set, 0)

\* ------------------------------------------------------------------------
\* Data
\* ------------------------------------------------------------------------
Sample(i, t) == [inputs |-> Arr(i), target |-> Arr(t)]

SampleA == Sample(<<Scale, 0>>, <<Scale, 0>>)

SampleB == Sample(<<Scale \div 2, Scale>>, <<0, Scale>>)

SampleC == Sample(<<0, Scale \div 2>>, <<0, Scale>>)

TrainSets == {Arr(<<SampleA, SampleB>>)}

TestSets == {Arr(<<SampleC>>)}

\* layer sizes of the networks explored: no, one and two hidden layers
LayerConfigs == {Arr(<<2, 2>>), Arr(<<2, 3, 2>>), Arr(<<2, 2, 2, 2>>)}

LearningRates == {Scale, Scale \div 2}

Seeds == 1..NumSeeds

\* shuffle_dataset: every permutation of the sequence can come out
Shuffles(set) == {[i \in DOMAIN set |-> set[p[i]]] : p \in Permutations(DOMAIN set)}

\* ------------------------------------------------------------------------
\* State
\* ------------------------------------------------------------------------
VARIABLES
    caller,         \* the entry point under analysis: "train" or "forward_pass"
    pc,             \* control point of the call
    layers,         \* the network (`layers: &mut [Layer]`)
    training_set,   \* train's arguments
    test_set,
    epochs,
    learning_rate,
    fp_inputs,      \* forward_pass's argument when it is the entry point
    epoch,          \* `for epoch in 0..epochs`
    shuffled,       \* the epoch's shuffled copy of training_set
    k,              \* index of `sample` in shuffled
    l,              \* layer index of the running loop
    total_loss,
    train_acc,
    test_acc,
    reports,        \* what println! has written, one record per line
    trace,          \* calls made in the current epoch, with their argument
    call_state,     \* history: layers and training_set when train was called
    bp_entry,       \* history: layers when the running back_propagate began
    state,          \* the AppState behind Arc<Mutex<..>>
    mutex,          \* who holds the lock: <<>>, <<"ui">> or <<"thread", t>>
    ui,             \* the UI thread: its place in update and the frame's locals
    threads,        \* the training threads: place and locals of each
    file            \* trained_model.json: <<>> or <<network>>

core_vars == <<caller, pc, epoch, k, l, epochs, learning_rate, total_loss, train_acc,
               test_acc, reports, trace, fp_inputs, shuffled, training_set, test_set,
               layers, call_state, bp_entry>>

gui_vars == <<mutex, ui, threads, state, file>>

vars == <<core_vars, gui_vars>>

\* ------------------------------------------------------------------------
\* train and the calls it makes (trainer.rs)
\* ------------------------------------------------------------------------
InitCore(c) ==
    /\ caller = c
    /\ \E sizes \in LayerConfigs : \E s \in Seeds :
            layers = initialize_network(sizes, Arr(<<>>), s)
    /\ training_set \in TrainSets
    /\ test_set \in TestSets
    /\ learning_rate \in LearningRates
    /\ epoch = 0
    /\ shuffled = <<>>
    /\ k = 0
    /\ l = 0
    /\ total_loss = 0
    /\ train_acc = 0
    /\ test_acc = 0
    /\ reports = <<>>
    /\ trace = <<>>
    /\ call_state = [layers |-> layers, training_set |-> training_set]
    /\ bp_entry = layers
    /\ state = <<>>
    /\ mutex = <<>>
    /\ ui = <<>>
    /\ threads = <<>>
    /\ file = <<>>

InitTrain ==
    /\ InitCore("train")
    /\ epochs \in 0..MaxEpochs
    /\ fp_inputs = <<>>
    /\ pc = "train"

\* the argument of forward_pass at its call site
FwdArg == IF caller = "train" THEN shuffled[k].inputs ELSE fp_inputs

\* line 99 reading the target from the unshuffled sequence
TargetArg_Unshuffled == training_set[k].target

\* the argument of back_propagate and calculate_loss at their call sites
TargetArg == shuffled[k].target

\* lines 98-100 in another order: the loss is accumulated before back_propagate
AfterCall_LossFirst(op) ==
    CASE op = "forward_pass" -> "loss"
      [] op = "calculate_loss" -> "bp_output"
      [] op = "back_propagate" -> "next_sample"

\* lines 98-100: the statement of the loop body that follows a call's return
AfterCall(op) ==
    CASE op = "forward_pass" -> "bp_output"
      [] op = "back_propagate" -> "loss"
      [] op = "calculate_loss" -> "next_sample"

\* line 92 with an inclusive range
TrainHead_Inclusive ==
    /\ pc = "train"
    /\ IF epoch <= epochs
       THEN /\ shuffled' \in Shuffles(training_set)
            /\ total_loss' = 0
            /\ k' = 0
            /\ trace' = <<>>
            /\ pc' = "sample"
       ELSE /\ pc' = "done"
            /\ UNCHANGED <<shuffled, total_loss, k, trace>>
    /\ UNCHANGED <<caller, layers, training_set, test_set, epochs, learning_rate,
                   fp_inputs, epoch, l, train_acc, test_acc, reports, call_state,
                   bp_entry, gui_vars>>

\* line 92 with an early exit once half of the training samples are predicted right
TrainHead_EarlyStop ==
    /\ pc = "train"
    /\ IF epoch < epochs /\ ~(epoch > 0 /\ train_acc >= 50)
       THEN /\ shuffled' \in Shuffles(training_set)
            /\ total_loss' = 0
            /\ k' = 0
            /\ trace' = <<>>
            /\ pc' = "sample"
       ELSE /\ pc' = "done"
            /\ UNCHANGED <<shuffled, total_loss, k, trace>>
    /\ UNCHANGED <<caller, layers, training_set, test_set, epochs, learning_rate,
                   fp_inputs, epoch, l, train_acc, test_acc, reports, call_state,
                   bp_entry, gui_vars>>

\* line 92: the head of `for epoch in 0..epochs`, then lines 93-96
TrainHead ==
    /\ pc = "train"
    /\ IF epoch < epochs
       THEN /\ shuffled' \in Shuffles(training_set)
            /\ total_loss' = 0
            /\ k' = 0
            /\ trace' = <<>>
            /\ pc' = "sample"
       ELSE /\ pc' = "done"
            /\ UNCHANGED <<shuffled, total_loss, k, trace>>
    /\ UNCHANGED <<caller, layers, training_set, test_set, epochs, learning_rate,
                   fp_inputs, epoch, l, train_acc, test_acc, reports, call_state,
                   bp_entry, gui_vars>>

\* line 97: the head of `for sample in shuffled.iter()`
SampleHead ==
    /\ pc = "sample"
    /\ pc' = IF k < Size(shuffled) THEN "fwd_input" ELSE "evaluate"
    /\ UNCHANGED <<caller, layers, training_set, test_set, epochs, learning_rate,
                   fp_inputs, epoch, shuffled, k, l, total_loss, train_acc, test_acc,
                   reports, trace, call_state, bp_entry, gui_vars>>

\* forward_pass lines 9-14
FwdInputStep ==
    /\ pc = "fwd_input"
    /\ trace' = Append(trace, [op |-> "forward_pass", arg |-> FwdArg])
    /\ IF FwdInputPanics(layers, FwdArg)
       THEN pc' = "panic" /\ UNCHANGED <<layers, l>>
       ELSE /\ layers' = FwdInput(layers, FwdArg)
            /\ l' = 1
            /\ pc' = "fwd_layer"
    /\ UNCHANGED <<caller, training_set, test_set, epochs, learning_rate, fp_inputs,
                   epoch, shuffled, k, total_loss, train_acc, test_acc, reports,
                   call_state, bp_entry, gui_vars>>

\* forward_pass lines 16-30, one layer
FwdLayerStep ==
    /\ pc = "fwd_layer"
    /\ l < NumLayers(layers)
    /\ IF FwdLayerPanics(layers, l)
       THEN pc' = "panic" /\ UNCHANGED <<layers, l>>
       ELSE /\ layers' = FwdLayer(layers, l)
            /\ l' = l + 1
            /\ pc' = "fwd_layer"
    /\ UNCHANGED <<caller, training_set, test_set, epochs, learning_rate, fp_inputs,
                   epoch, shuffled, k, total_loss, train_acc, test_acc, reports, trace,
                   call_state, bp_entry, gui_vars>>

\* forward_pass lines 32-44, and the return to the caller
FwdSoftmaxStep ==
    /\ pc = "fwd_layer"
    /\ l >= NumLayers(layers)
    /\ layers' = FwdSoftmax(layers)
    /\ pc' = IF caller = "train" THEN AfterCall("forward_pass") ELSE "done"
    /\ UNCHANGED <<caller, training_set, test_set, epochs, learning_rate, fp_inputs,
                   epoch, shuffled, k, l, total_loss, train_acc, test_acc, reports,
                   trace, call_state, bp_entry, gui_vars>>

\* where back_propagate goes once the deltas of layers l+1.. are computed
AfterDelta(ls, next) ==
    IF next >= 1 THEN "bp_hidden"
    ELSE IF 1 < NumLayers(ls) THEN "bp_update"
    ELSE AfterCall("back_propagate")

\* back_propagate lines 47-51
BpOutputStep ==
    /\ pc = "bp_output"
    /\ trace' = Append(trace, [op |-> "back_propagate", arg |-> TargetArg])
    /\ bp_entry' = layers
    /\ IF BpOutputPanics(layers, TargetArg)
       THEN pc' = "panic" /\ UNCHANGED <<layers, l>>
       ELSE LET output_index == NumLayers(layers) - 1
            IN  /\ layers' = BpOutputDelta(layers, TargetArg)
                /\ pc' = AfterDelta(layers, output_index - 1)
                /\ l' = IF output_index - 1 >= 1 THEN output_index - 1 ELSE 1
    /\ UNCHANGED <<caller, training_set, test_set, epochs, learning_rate, fp_inputs,
                   epoch, shuffled, k, total_loss, train_acc, test_acc, reports,
                   call_state, gui_vars>>

\* lines 53-61 with the update of layer l + 1 done before the delta of layer l
BpHiddenStep_Interleaved ==
    /\ pc = "bp_hidden"
    /\ IF BpHiddenPanics(layers, l)
       THEN pc' = "panic" /\ UNCHANGED <<layers, l>>
       ELSE /\ layers' = Bind(BpUpdate(layers, l + 1, learning_rate),
                            LAMBDA updated : BpHiddenDelta(updated, l))
            /\ pc' = AfterDelta(layers, l - 1)
            /\ l' = IF l - 1 >= 1 THEN l - 1 ELSE 1
    /\ UNCHANGED <<caller, training_set, test_set, epochs, learning_rate, fp_inputs,
                   epoch, shuffled, k, total_loss, train_acc, test_acc, reports, trace,
                   call_state, bp_entry, gui_vars>>

\* lines 53-61 with next_layer_deltas read from the network as the call found
\* it: the deltas a previous call left in layer l + 1
BpHiddenStep_Stale ==
    /\ pc = "bp_hidden"
    /\ IF BpHiddenPanics(layers, l)
       THEN pc' = "panic" /\ UNCHANGED <<layers, l>>
       ELSE /\ layers' = [layers EXCEPT
                    ![l] = BpHiddenDelta([layers EXCEPT ![l + 1] = bp_entry[l + 1]], l)[l]]
            /\ pc' = AfterDelta(layers, l - 1)
            /\ l' = IF l - 1 >= 1 THEN l - 1 ELSE 1
    /\ UNCHANGED <<caller, training_set, test_set, epochs, learning_rate, fp_inputs,
                   epoch, shuffled, k, total_loss, train_acc, test_acc, reports, trace,
                   call_state, bp_entry, gui_vars>>

\* back_propagate lines 53-61, one layer
BpHiddenStep ==
    /\ pc = "bp_hidden"
    /\ IF BpHiddenPanics(layers, l)
       THEN pc' = "panic" /\ UNCHANGED <<layers, l>>
       ELSE /\ layers' = BpHiddenDelta(layers, l)
            /\ pc' = AfterDelta(layers, l - 1)
            /\ l' = IF l - 1 >= 1 THEN l - 1 ELSE 1
    /\ UNCHANGED <<caller, training_set, test_set, epochs, learning_rate, fp_inputs,
                   epoch, shuffled, k, total_loss, train_acc, test_acc, reports, trace,
                   call_state, bp_entry, gui_vars>>

\* back_propagate lines 63-72, one layer
BpUpdateStep ==
    /\ pc = "bp_update"
    /\ IF BpUpdatePanics(layers, l)
       THEN pc' = "panic" /\ UNCHANGED <<layers, l>>
       ELSE /\ layers' = BpUpdate(layers, l, learning_rate)
            /\ l' = l + 1
            /\ pc' = IF l + 1 < NumLayers(layers) THEN "bp_update"
                     ELSE AfterCall("back_propagate")
    /\ UNCHANGED <<caller, training_set, test_set, epochs, learning_rate, fp_inputs,
                   epoch, shuffled, k, total_loss, train_acc, test_acc, reports, trace,
                   call_state, bp_entry, gui_vars>>

\* line 100
LossStep ==
    /\ pc = "loss"
    /\ trace' = Append(trace, [op |-> "calculate_loss", arg |-> TargetArg])
    /\ total_loss' = total_loss + calculate_loss(layers, TargetArg)
    /\ pc' = AfterCall("calculate_loss")
    /\ UNCHANGED <<caller, layers, training_set, test_set, epochs, learning_rate,
                   fp_inputs, epoch, shuffled, k, l, train_acc, test_acc, reports,
                   call_state, bp_entry, gui_vars>>

\* line 101: the end of the loop body, the iterator moves on
SampleNext ==
    /\ pc = "next_sample"
    /\ k' = k + 1
    /\ pc' = "sample"
    /\ UNCHANGED <<caller, layers, training_set, test_set, epochs, learning_rate,
                   fp_inputs, epoch, shuffled, l, total_loss, train_acc, test_acc,
                   reports, trace, call_state, bp_entry, gui_vars>>

\* lines 103-104
EvaluateStep ==
    /\ pc = "evaluate"
    /\ \E after_train \in {EvaluateLayers(layers, training_set)} :
           IF EvaluatePanics(layers, training_set) \/ EvaluatePanics(after_train, test_set)
           THEN pc' = "panic" /\ UNCHANGED <<layers, train_acc, test_acc>>
           ELSE /\ train_acc' = EvaluateAccuracy(layers, training_set)
                /\ test_acc' = EvaluateAccuracy(after_train, test_set)
                /\ layers' = EvaluateLayers(after_train, test_set)
                /\ pc' = "report"
    /\ UNCHANGED <<caller, training_set, test_set, epochs, learning_rate, fp_inputs,
                   epoch, shuffled, k, l, total_loss, reports, trace, call_state,
                   bp_entry, gui_vars>>

\* lines 106-113, and the step to the next epoch
ReportStep ==
    /\ pc = "report"
    /\ reports' = Append(reports, [epoch |-> epoch + 1,
                                   loss |-> total_loss \div Size(training_set),
                                   train_acc |-> train_acc,
                                   test_acc |-> test_acc])
    /\ epoch' = epoch + 1
    /\ pc' = "train"
    /\ UNCHANGED <<caller, layers, training_set, test_set, epochs, learning_rate,
                   fp_inputs, shuffled, k, l, total_loss, train_acc, test_acc, trace,
                   call_state, bp_entry, gui_vars>>

ForwardPassNext == FwdInputStep \/ FwdLayerStep \/ FwdSoftmaxStep

BackPropagateNext == BpOutputStep \/ BpHiddenStep \/ BpUpdateStep

Next ==
    \/ TrainHead
    \/ SampleHead
    \/ ForwardPassNext
    \/ BackPropagateNext
    \/ LossStep
    \/ SampleNext
    \/ EvaluateStep
    \/ ReportStep

Spec == InitTrain /\ [][Next]_vars

\* forward_pass called on its own, with an input of any length
InputVectors ==
    UNION {[0..(n - 1) -> {0, Scale}] : n \in 1..3}

InitForward ==
    /\ InitCore("forward_pass")
    /\ epochs = 0
    /\ fp_inputs \in InputVectors
    /\ pc = "fwd_input"

SpecForward == InitForward /\ [][ForwardPassNext]_vars

\* ------------------------------------------------------------------------
\* Properties of the trainer
\* ------------------------------------------------------------------------
Params(ls) ==
    [m \in DOMAIN ls |->
        [n \in DOMAIN ls[m].neurons |->
            [weights |-> ls[m].neurons[n].weights, bias |-> ls[m].neurons[n].bias]]]

Deltas(ls, m) == [n \in DOMAIN ls[m].neurons |-> ls[m].neurons[n].delta]

\* the deltas of layer m are those computed from the network as the running
\* back_propagate call found it
DeltaFromEntry(m) == Deltas(layers, m) = Deltas(AllDeltas(bp_entry, TargetArg), m)

\* C1: in back_propagate every delta of every layer is computed from the weights
\* the call began with, and no weight or bias changes before all deltas exist:
\* while deltas are being computed the parameters are those of the call's entry,
\* and while updates run every delta is still the one computed from them
C1_DeltasFromEntryWeights ==
    /\ pc = "bp_hidden" =>
            /\ Params(layers) = Params(bp_entry)
            /\ \A m \in (l + 1)..(NumLayers(layers) - 1) : DeltaFromEntry(m)
    /\ pc = "bp_update" =>
            /\ \A m \in 1..(NumLayers(layers) - 1) : DeltaFromEntry(m)
            /\ \A m \in l..(NumLayers(layers) - 1) :
                    Params(layers)[m] = Params(bp_entry)[m]
    /\ pc = "loss" =>
            \A m \in 1..(NumLayers(layers) - 1) : DeltaFromEntry(m)

C1_Witness ==
    /\ pc = "bp_update"
    /\ NumLayers(layers) = 4
    /\ l = 3
    /\ Params(layers) # Params(bp_entry)
    /\ \E n \in DOMAIN layers[1].neurons : layers[1].neurons[n].delta # 0
    /\ \E n \in DOMAIN layers[2].neurons : layers[2].neurons[n].delta # 0

\* C2: train with epochs = 0 leaves every weight and bias as it was at the call
C2_ZeroEpochsKeepsParams ==
    (caller = "train" /\ epochs = 0) => Params(layers) = Params(call_state.layers)

C2_Witness == caller = "train" /\ epochs = 0 /\ pc = "done"

\* the calls of one epoch over the sequence sh, in the order the loop makes them
RECURSIVE ExpectedTrace(_, _)
ExpectedTrace(sh, n) ==
    IF n = 0 THEN <<>>
    ELSE ExpectedTrace(sh, n - 1) \o
            << [op |-> "forward_pass", arg |-> sh[n - 1].inputs],
               [op |-> "back_propagate", arg |-> sh[n - 1].target],
               [op |-> "calculate_loss", arg |-> sh[n - 1].target] >>

\* how many calls the epoch has made when control is at pc with sample k current
CallsMade ==
    CASE pc \in {"sample", "fwd_input"} -> 3 * k
      [] pc \in {"fwd_layer", "bp_output"} -> 3 * k + 1
      [] pc \in {"bp_hidden", "bp_update", "loss"} -> 3 * k + 2
      [] pc = "next_sample" -> 3 * k + 3
      [] OTHER -> 3 * Size(shuffled)

\* C3: within an epoch samples are processed one at a time, each by forward_pass
\* on its inputs, then back_propagate on its target, then its loss: the calls
\* made so far are always a prefix of that sequence over the shuffled samples
C3_SampleStepsInOrder ==
    (caller = "train" /\ pc \notin {"train", "done", "panic"}) =>
        /\ k <= Size(shuffled)
        /\ trace = SubSeq(ExpectedTrace(shuffled, Size(shuffled)), 1, CallsMade)

C3_Witness ==
    /\ pc = "loss"
    /\ k = 1
    /\ epoch = 1
    /\ Len(trace) = 5

\* the sample whose inputs the i-th forward_pass of the epoch got and whose
\* target the i-th back_propagate got
Processed(i) == [inputs |-> trace[3 * i + 1].arg, target |-> trace[3 * i + 2].arg]

\* C4: in every epoch the sequence iterated over is a permutation of
\* training_set, each sample is forward-passed and back-propagated exactly once
\* with its own target, and training_set itself keeps its order
C4_EpochIsPermutation ==
    /\ training_set = call_state.training_set
    /\ (caller = "train" /\ pc \notin {"train", "done", "panic"}) =>
            shuffled \in Shuffles(training_set)
    /\ (caller = "train" /\ pc \in {"evaluate", "report"}) =>
            /\ Len(trace) = 3 * Size(training_set)
            /\ \E p \in Permutations(DOMAIN training_set) :
                    \A i \in DOMAIN training_set : Processed(i) = training_set[p[i]]
            /\ \A i \in DOMAIN training_set : trace[3 * i + 1].op = "forward_pass"
            /\ \A i \in DOMAIN training_set : trace[3 * i + 2].op = "back_propagate"

C4_Witness ==
    /\ pc = "evaluate"
    /\ epoch = 1
    /\ shuffled # training_set

\* C5: forward_pass with an input whose length is not the layer-0 size ends in an
\* error and never completes
C5_MismatchIsError ==
    (caller = "forward_pass" /\ Size(fp_inputs) # Size(layers[0].neurons)) =>
        pc # "done"

\* steps left in the body of the loop over samples, at most
BodyRank ==
    LET n == NumLayers(layers)
    IN  CASE pc = "next_sample" -> 1
          [] pc = "loss" -> 2
          [] pc = "bp_update" -> 2 + (n - l)
          [] pc = "bp_hidden" -> 2 + n + l
          [] pc = "bp_output" -> 2 * n + 3
          [] pc = "fwd_layer" -> 2 * n + 4 + (n - l)
          [] pc = "fwd_input" -> 3 * n + 5

BodyBound == 3 * NumLayers(layers) + 6

EpochBound == Size(training_set) * BodyBound + 5

\* a bound on the number of steps train still takes
Rank ==
    CASE pc \in {"done", "panic"} -> 0
      [] pc = "train" -> (epochs - epoch) * EpochBound + 1
      [] pc = "report" -> (epochs - epoch - 1) * EpochBound + 2
      [] pc = "evaluate" -> (epochs - epoch - 1) * EpochBound + 3
      [] pc = "sample" ->
            (epochs - epoch - 1) * EpochBound + (Size(shuffled) - k) * BodyBound + 4
      [] OTHER ->
            (epochs - epoch - 1) * EpochBound + (Size(shuffled) - k - 1) * BodyBound
                + 4 + BodyRank

\* C10: train always terminates (every step lowers a bound on the steps left, and
\* no step ends in a panic), and when it has returned it has run exactly `epochs`
\* epochs, whatever loss and accuracy it computed
C10_RunsExactlyEpochs ==
    /\ [][Rank' < Rank /\ Rank' >= 0]_vars
    /\ [](pc # "panic")
    /\ [](pc = "done" => (epoch = epochs /\ Len(reports) = epochs))

C10_Witness ==
    /\ pc = "done"
    /\ epochs = 2
    /\ Len(reports) = 2
    /\ reports[1].train_acc >= 50

\* ------------------------------------------------------------------------
\* The GUI: update and the training thread it spawns (gui.rs)
\* ------------------------------------------------------------------------
Threads == 1..MaxThreads

\* Option<T>
None == <<>>

Some(x) == <<x>>

IsSome(o) == Len(o) > 0

Unwrap(o) == o[1]

\* the status line; the epoch numbers are those of format! at line 227
Status(text) == [text |-> text, epoch |-> 0, of |-> 0]

StatusEpoch(e, n) == [text |-> "Training... Epoch", epoch |-> e, of |-> n]

GuiTrainSet == Arr(<<SampleB>>)

GuiTestSet == Arr(<<SampleC>>)

\* Config::default()
DefaultConfig ==
    [layers |-> Arr(<<2, 2>>), activations |-> Arr(<<"sigmoid">>),
     epochs |-> MaxEpochs, learning_rate |-> Scale \div 2]

\* what the widgets of the Configuration panel can leave in config: a single
\* layer ("2"), one activation too many ("sigmoid,relu")
ConfigEdits ==
    { [DefaultConfig EXCEPT !.layers = Arr(<<2>>)],
      [DefaultConfig EXCEPT !.activations = Arr(<<"sigmoid", "relu">>)] }

\* neither of the two warnings of lines 165-170 is shown
ConfigValid(c) ==
    /\ ~(Size(c.layers) < 2)
    /\ ~(Size(c.activations) # Size(c.layers) - 1)

\* lines 199-208
ActivationOf(name) ==
    CASE name = "sigmoid" -> "sigmoid"
      [] name = "relu" -> "relu"
      [] name = "softmax" -> "softmax"
      [] OTHER -> "sigmoid"

\* AppState::default() with the two sets of GuiApp::default()
InitState ==
    [config |-> DefaultConfig,
     progress |-> 0,
     train_accuracy |-> 0,
     test_accuracy |-> 0,
     status |-> Status("Idle"),
     network |-> None,
     train_accuracy_history |-> <<>>,
     test_accuracy_history |-> <<>>,
     selected_sample_index |-> 0,
     prediction_result |-> None,
     needs_repaint |-> FALSE,
     training_state |-> "Idle",
     test_set |-> GuiTestSet,
     train_set |-> GuiTrainSet]

\* a training thread that has not been spawned; checks and outcome are history:
\* how often the thread has read training_state, and the way it returned
Unborn ==
    [pc |-> "unborn", config |-> <<>>, train_set |-> <<>>, test_set |-> <<>>,
     network |-> <<>>, epoch |-> 0, shuffled |-> <<>>, k |-> 0, total_loss |-> 0,
     reports |-> <<>>, checks |-> 0, outcome |-> "none"]

\* what the user does in a frame: the button clicked, the panel that is open
\* ("charts" for Training Metrics and Logs), and what is typed into the
\* Configuration panel
NoInput == [click |-> "none", panel |-> "none", edit |-> None]

FrameInputs ==
    {[NoInput EXCEPT !.click = c] : c \in {"none", "start", "stop", "save", "load"}}
        \cup {[NoInput EXCEPT !.panel = "config", !.edit = Some(c)] : c \in ConfigEdits}
        \cup {[NoInput EXCEPT !.panel = q] : q \in {"charts", "predict"}}
        \cup {[NoInput EXCEPT !.panel = "predict", !.click = "predict"]}

\* the UI thread between two frames
UiIdle(frames) ==
    [pc |-> "idle", input |-> NoInput, training_state |-> "Idle",
     needs_repaint |-> FALSE, network_exists |-> FALSE, predicted_label |-> 0,
     frames |-> frames]

\* the places of update in source order: each is a block that locks the state,
\* except "spawn"
Regions ==
    << "snapshot", "repaint", "config", "start", "spawn", "stop", "save", "load",
       "progress", "accuracy", "metrics", "network_exists", "test_set", "index",
       "selected", "texture", "predict", "result", "prediction", "logs" >>

UiLockRegions == {Regions[i] : i \in 1..Len(Regions)} \ {"spawn"}

\* the blocks that only read the state for display (lines 299-302, 306-309,
\* 318-321, 358-361, 369-372, 416-419), the DragValue of line 366 whose range
\* holds the one index of the test set, the texture cache of lines 377-392, and
\* the Logs box of lines 435-438 when nothing is typed into it
UiReadRegions ==
    {"progress", "accuracy", "metrics", "test_set", "index", "selected", "texture",
     "prediction", "logs"}

\* the conditions under which update enters a block, u being the frame's locals
Runs(r, u) ==
    LET sample_shown == /\ u.input.panel = "predict"
                        /\ u.network_exists
                        /\ Size(GuiTestSet) > 0
    IN  CASE r = "snapshot" -> TRUE
          [] r = "repaint" -> u.needs_repaint
          [] r = "config" -> u.input.panel = "config"
          [] r \in {"start", "spawn"} ->
                u.input.click = "start" /\ u.training_state # "Training"
          [] r = "stop" -> u.input.click = "stop" /\ u.training_state = "Training"
          [] r = "save" -> u.input.click = "save"
          [] r = "load" -> u.input.click = "load"
          [] r \in {"progress", "accuracy"} -> TRUE
          [] r = "metrics" -> u.input.panel = "charts"
          [] r = "network_exists" -> u.input.panel = "predict"
          [] r \in {"test_set", "index", "selected", "texture", "prediction"} ->
                sample_shown
          [] r \in {"predict", "result"} ->
                sample_shown /\ u.input.click = "predict"
          [] r = "logs" -> u.input.panel = "charts"

RECURSIVE RegionFrom(_, _)
RegionFrom(i, u) ==
    IF i > Len(Regions) THEN "idle"
    ELSE IF Runs(Regions[i], u) THEN Regions[i]
    ELSE RegionFrom(i + 1, u)

Position(r) == CHOOSE i \in 1..Len(Regions) : Regions[i] = r

\* the UI thread once it has left block r with the locals u: at the next block
\* the frame enters, or at the end of update
Advance(u, r) ==
    LET next == RegionFrom(Position(r) + 1, u)
    IN  IF next = "idle" THEN UiIdle(u.frames) ELSE [u EXCEPT !.pc = next]

InitGui ==
    /\ caller = "gui"
    /\ pc = "gui"
    /\ layers = <<>>
    /\ training_set = <<>>
    /\ test_set = <<>>
    /\ epochs = 0
    /\ learning_rate = 0
    /\ fp_inputs = <<>>
    /\ epoch = 0
    /\ shuffled = <<>>
    /\ k = 0
    /\ l = 0
    /\ total_loss = 0
    /\ train_acc = 0
    /\ test_acc = 0
    /\ reports = <<>>
    /\ trace = <<>>
    /\ call_state = <<>>
    /\ bp_entry = <<>>
    /\ state = InitState
    /\ mutex = <<>>
    /\ ui = UiIdle(0)
    /\ threads = [t \in Threads |-> Unborn]
    /\ file = None

\* update is called for a frame
UiBeginFrame ==
    /\ ui.pc = "idle"
    /\ ui.frames < MaxFrames
    /\ \E input \in FrameInputs :
        /\ input.click = "start" => \E t \in Threads : threads[t].pc = "unborn"
        /\ ui' = [ui EXCEPT !.pc = "snapshot", !.input = input, !.frames = @ + 1]
    /\ UNCHANGED <<core_vars, mutex, threads, state, file>>

\* self.state.lock().unwrap() at the head of a block
UiLock ==
    /\ ui.pc \in UiLockRegions
    /\ mutex = <<>>
    /\ mutex' = <<"ui">>
    /\ UNCHANGED <<core_vars, ui, threads, state, file>>

UiHolds(r) == ui.pc = r /\ mutex = <<"ui">>

\* lines 99-102 with the guard kept alive to the end of update (the history the
\* comment of line 98 tells): the frame goes on to its next block with the
\* mutex still held
UiSnapshot_KeepsLock ==
    /\ UiHolds("snapshot")
    /\ ui' = Advance([ui EXCEPT !.training_state = state.training_state,
                                !.needs_repaint = state.needs_repaint], "snapshot")
    /\ UNCHANGED <<core_vars, mutex, threads, state, file>>

\* lines 99-102; the copy of status is only drawn, at line 296
UiSnapshot ==
    /\ UiHolds("snapshot")
    /\ ui' = Advance([ui EXCEPT !.training_state = state.training_state,
                                !.needs_repaint = state.needs_repaint], "snapshot")
    /\ mutex' = <<>>
    /\ UNCHANGED <<core_vars, threads, state, file>>

\* lines 104-108
UiRepaint ==
    /\ UiHolds("repaint")
    /\ state' = [state EXCEPT !.needs_repaint = FALSE]
    /\ ui' = Advance(ui, "repaint")
    /\ mutex' = <<>>
    /\ UNCHANGED <<core_vars, threads, file>>

\* lines 121-171: the widgets write config, the two checks only add labels
UiConfig ==
    /\ UiHolds("config")
    /\ state' = IF IsSome(ui.input.edit)
                THEN [state EXCEPT !.config = Unwrap(ui.input.edit)]
                ELSE state
    /\ ui' = Advance(ui, "config")
    /\ mutex' = <<>>
    /\ UNCHANGED <<core_vars, threads, file>>

\* lines 177-186 with the checks of lines 165-170 refusing the click
UiStart_Validated ==
    /\ UiHolds("start")
    /\ IF ConfigValid(state.config)
       THEN /\ state' = [state EXCEPT !.training_state = "Training",
                                      !.status = Status("Training started"),
                                      !.train_accuracy_history = <<>>,
                                      !.test_accuracy_history = <<>>]
            /\ ui' = Advance(ui, "start")
       ELSE /\ state' = [state EXCEPT !.status = Status("Configuration error")]
            /\ ui' = Advance(ui, "spawn")
    /\ mutex' = <<>>
    /\ UNCHANGED <<core_vars, threads, file>>

\* lines 177-186
UiStart ==
    /\ UiHolds("start")
    /\ state' = [state EXCEPT !.training_state = "Training",
                              !.status = Status("Training started"),
                              !.train_accuracy_history = <<>>,
                              !.test_accuracy_history = <<>>]
    /\ ui' = Advance(ui, "start")
    /\ mutex' = <<>>
    /\ UNCHANGED <<core_vars, threads, file>>

\* line 188: thread::spawn
UiSpawn ==
    /\ ui.pc = "spawn"
    /\ \E t \in Threads :
        /\ threads[t].pc = "unborn"
        /\ \A o \in Threads : threads[o].pc = "unborn" => t <= o
        /\ threads' = [threads EXCEPT ![t].pc = "read_config"]
    /\ ui' = Advance(ui, "spawn")
    /\ UNCHANGED <<core_vars, mutex, state, file>>

\* lines 259-265
UiStop ==
    /\ UiHolds("stop")
    /\ state' = [state EXCEPT !.training_state = "Stopped",
                              !.status = Status("Stopping training...")]
    /\ ui' = Advance(ui, "stop")
    /\ mutex' = <<>>
    /\ UNCHANGED <<core_vars, threads, file>>

\* lines 267-276
UiSave ==
    /\ UiHolds("save")
    /\ IF IsSome(state.network)
       THEN /\ file' = Some(Unwrap(state.network))
            /\ state' = [state EXCEPT !.status = Status("Model saved successfully.")]
       ELSE /\ state' = [state EXCEPT !.status = Status("No trained network to save.")]
            /\ UNCHANGED file
    /\ ui' = Advance(ui, "save")
    /\ mutex' = <<>>
    /\ UNCHANGED <<core_vars, threads>>

\* lines 278-291
UiLoad ==
    /\ UiHolds("load")
    /\ state' = IF IsSome(file)
                THEN [state EXCEPT !.network = Some(Unwrap(file)),
                                   !.status = Status("Model loaded successfully.")]
                ELSE [state EXCEPT !.status = Status("Failed to load model.")]
    /\ ui' = Advance(ui, "load")
    /\ mutex' = <<>>
    /\ UNCHANGED <<core_vars, threads, file>>

\* a block that copies fields of the state for display and changes none
UiRead ==
    /\ ui.pc \in UiReadRegions
    /\ mutex = <<"ui">>
    /\ ui' = Advance(ui, ui.pc)
    /\ mutex' = <<>>
    /\ UNCHANGED <<core_vars, threads, state, file>>

\* lines 352-355
UiNetworkExists ==
    /\ UiHolds("network_exists")
    /\ ui' = Advance([ui EXCEPT !.network_exists = IsSome(state.network)],
                     "network_exists")
    /\ mutex' = <<>>
    /\ UNCHANGED <<core_vars, threads, state, file>>

\* lines 443-454 without line 445: the activations the network came with
predict_NoForwardPass(ls, sample) ==
    Argmax(activated_values(ls[NumLayers(ls) - 1]))

\* lines 443-454
predict(ls, sample) ==
    Bind(ForwardPass(ls, sample.inputs),
         LAMBDA copy : Argmax(activated_values(copy[NumLayers(copy) - 1])))

\* lines 398-402 with predict running forward_pass on the network of the state
\* itself, without line 444
UiPredict_InPlace ==
    /\ UiHolds("predict")
    /\ LET sample == state.test_set[state.selected_sample_index]
       IN  /\ state' = [state EXCEPT !.network =
                            Some(ForwardPass(Unwrap(state.network), sample.inputs))]
           /\ ui' = Advance([ui EXCEPT !.predicted_label =
                                predict(Unwrap(state.network), sample)], "predict")
    /\ mutex' = <<>>
    /\ UNCHANGED <<core_vars, threads, file>>

\* lines 398-402; a panic of forward_pass leaves the mutex poisoned
UiPredict ==
    /\ UiHolds("predict")
    /\ LET sample == state.test_set[state.selected_sample_index]
       IN  IF ForwardPassPanics(Unwrap(state.network), sample.inputs)
           THEN /\ ui' = [ui EXCEPT !.pc = "panicked"]
                /\ mutex' = <<"poisoned">>
           ELSE /\ ui' = Advance([ui EXCEPT !.predicted_label =
                                    predict(Unwrap(state.network), sample)], "predict")
                /\ mutex' = <<>>
    /\ UNCHANGED <<core_vars, threads, state, file>>

\* lines 404-413
UiResult ==
    /\ UiHolds("result")
    /\ LET sample == state.test_set[state.selected_sample_index]
       IN  state' = [state EXCEPT !.prediction_result =
                        Some(<<ui.predicted_label, ActualLabel(sample.target)>>)]
    /\ ui' = Advance(ui, "result")
    /\ mutex' = <<>>
    /\ UNCHANGED <<core_vars, threads, file>>

UiNext ==
    \/ UiBeginFrame
    \/ UiLock
    \/ UiSnapshot
    \/ UiRepaint
    \/ UiConfig
    \/ UiStart
    \/ UiSpawn
    \/ UiStop
    \/ UiSave
    \/ UiLoad
    \/ UiRead
    \/ UiNetworkExists
    \/ UiPredict
    \/ UiResult

\* the blocks of the training thread that lock the state
ThreadLockRegions == {"read_config", "check", "status", "publish", "complete"}

\* state_clone.lock().unwrap() at the head of a block
ThreadLock(t) ==
    /\ threads[t].pc \in ThreadLockRegions
    /\ mutex = <<>>
    /\ mutex' = <<"thread", t>>
    /\ UNCHANGED <<core_vars, ui, threads, state, file>>

ThreadHolds(t, r) == threads[t].pc = r /\ mutex = <<"thread", t>>

\* line 212 with the last epoch left out
LoopHead_Short(e, n) == IF e + 1 < n THEN "check" ELSE "complete"

\* line 212: the head of `for epoch in 0..config.epochs`
LoopHead(e, n) == IF e < n THEN "check" ELSE "complete"

\* lines 190-197
ThreadReadConfig(t) ==
    /\ ThreadHolds(t, "read_config")
    /\ threads' = [threads EXCEPT ![t] =
            [@ EXCEPT !.config = state.config,
                      !.train_set = state.train_set,
                      !.test_set = state.test_set,
                      !.pc = "init"]]
    /\ mutex' = <<>>
    /\ UNCHANGED <<core_vars, ui, state, file>>

\* the outcome of the random initialisation that thread t gets
SeedOf(t) == ((t - 1) % NumSeeds) + 1

\* lines 199-212
ThreadInit(t) ==
    /\ threads[t].pc = "init"
    /\ LET config == threads[t].config
           activations == [i \in DOMAIN config.activations |->
                                ActivationOf(config.activations[i])]
       IN  threads' = [threads EXCEPT ![t] =
                [@ EXCEPT !.network = initialize_network(config.layers, activations,
                                                         SeedOf(t)),
                          !.epoch = 0,
                          !.pc = LoopHead(0, config.epochs)]]
    /\ UNCHANGED <<core_vars, mutex, ui, state, file>>

\* lines 214-222
ThreadCheckStop(t) ==
    /\ ThreadHolds(t, "check")
    /\ IF state.training_state = "Stopped"
       THEN /\ state' = [state EXCEPT !.status = Status("Training stopped by user."),
                                      !.training_state = "Idle",
                                      !.needs_repaint = TRUE]
            /\ threads' = [threads EXCEPT ![t] =
                    [@ EXCEPT !.checks = @ + 1, !.outcome = "stopped",
                              !.pc = "returned"]]
       ELSE /\ threads' = [threads EXCEPT ![t] =
                    [@ EXCEPT !.checks = @ + 1, !.pc = "status"]]
            /\ UNCHANGED state
    /\ mutex' = <<>>
    /\ UNCHANGED <<core_vars, ui, file>>

\* lines 225-229 with a second look at training_state
ThreadStatus_Checking(t) ==
    /\ ThreadHolds(t, "status")
    /\ IF state.training_state = "Stopped"
       THEN /\ state' = [state EXCEPT !.status = Status("Training stopped by user."),
                                      !.training_state = "Idle",
                                      !.needs_repaint = TRUE]
            /\ threads' = [threads EXCEPT ![t] =
                    [@ EXCEPT !.checks = @ + 1, !.outcome = "stopped",
                              !.pc = "returned"]]
       ELSE /\ state' = [state EXCEPT
                    !.status = StatusEpoch(threads[t].epoch + 1, threads[t].config.epochs),
                    !.progress = (threads[t].epoch * 100) \div threads[t].config.epochs]
            /\ threads' = [threads EXCEPT ![t] =
                    [@ EXCEPT !.checks = @ + 1, !.pc = "train"]]
    /\ mutex' = <<>>
    /\ UNCHANGED <<core_vars, ui, file>>

\* lines 225-229
ThreadStatus(t) ==
    /\ ThreadHolds(t, "status")
    /\ state' = [state EXCEPT
            !.status = StatusEpoch(threads[t].epoch + 1, threads[t].config.epochs),
            !.progress = (threads[t].epoch * 100) \div threads[t].config.epochs]
    /\ threads' = [threads EXCEPT ![t].pc = "train"]
    /\ mutex' = <<>>
    /\ UNCHANGED <<core_vars, ui, file>>

\* line 231, the call train(&mut network, &train_set, 1, learning_rate):
\* trainer.rs lines 92-96
ThreadTrainBegin(t) ==
    /\ threads[t].pc = "train"
    /\ \E sh \in Shuffles(threads[t].train_set) :
        threads' = [threads EXCEPT ![t] =
            [@ EXCEPT !.shuffled = sh, !.k = 0, !.total_loss = 0, !.pc = "sample"]]
    /\ UNCHANGED <<core_vars, mutex, ui, state, file>>

\* trainer.rs lines 97-101 for one sample, with the network of the state as the
\* network trained
ThreadTrainSample_Shared(t) ==
    LET th == threads[t]
        sample == th.shuffled[th.k]
    IN  /\ th.pc = "sample"
        /\ th.k < Size(th.shuffled)
        /\ \E after_fwd \in {ForwardPass(th.network, sample.inputs)} :
           \E after_bp \in {BackPropagate(after_fwd, sample.target,
                                          th.config.learning_rate)} :
                /\ threads' = [threads EXCEPT ![t] =
                        [th EXCEPT !.network = after_bp,
                                   !.total_loss = @ + calculate_loss(after_bp, sample.target),
                                   !.k = @ + 1]]
                /\ state' = [state EXCEPT !.network = Some(after_bp)]
        /\ UNCHANGED <<core_vars, mutex, ui, file>>

\* trainer.rs lines 97-101 for one sample
ThreadTrainSample(t) ==
    LET th == threads[t]
        sample == th.shuffled[th.k]
    IN  /\ th.pc = "sample"
        /\ th.k < Size(th.shuffled)
        /\ IF ForwardPassPanics(th.network, sample.inputs)
           THEN threads' = [threads EXCEPT ![t].pc = "panicked"]
           ELSE \E after_fwd \in {ForwardPass(th.network, sample.inputs)} :
                IF BackPropagatePanics(after_fwd, sample.target, th.config.learning_rate)
                THEN threads' = [threads EXCEPT ![t].pc = "panicked"]
                ELSE \E after_bp \in {BackPropagate(after_fwd, sample.target,
                                                    th.config.learning_rate)} :
                        threads' = [threads EXCEPT ![t] =
                            [th EXCEPT !.network = after_bp,
                                       !.total_loss =
                                            @ + calculate_loss(after_bp, sample.target),
                                       !.k = @ + 1]]
        /\ UNCHANGED <<core_vars, mutex, ui, state, file>>

\* trainer.rs lines 103-113 and the return of train to line 231
ThreadTrainEnd(t) ==
    LET th == threads[t]
    IN  /\ th.pc = "sample"
        /\ th.k >= Size(th.shuffled)
        /\ \E after_train \in {EvaluateLayers(th.network, th.train_set)} :
                threads' = [threads EXCEPT ![t] =
                    [th EXCEPT !.network = EvaluateLayers(after_train, th.test_set),
                               !.reports = Append(@,
                                    [epoch |-> 0 + 1,
                                     loss |-> th.total_loss \div Size(th.train_set),
                                     train_acc |-> EvaluateAccuracy(th.network, th.train_set),
                                     test_acc |-> EvaluateAccuracy(after_train, th.test_set)]),
                               !.pc = "publish"]]
        /\ UNCHANGED <<core_vars, mutex, ui, state, file>>

\* lines 233-245, and the step of the loop to the next epoch
ThreadPublish(t) ==
    LET th == threads[t]
    IN  /\ ThreadHolds(t, "publish")
        /\ \E after_train \in {EvaluateLayers(th.network, th.train_set)} :
           \E after_test \in {EvaluateLayers(after_train, th.test_set)} :
           \E train_acc_now \in {EvaluateAccuracy(th.network, th.train_set)} :
           \E test_acc_now \in {EvaluateAccuracy(after_train, th.test_set)} :
                /\ state' = [state EXCEPT
                        !.train_accuracy = train_acc_now,
                        !.test_accuracy = test_acc_now,
                        !.train_accuracy_history = Append(@, train_acc_now),
                        !.test_accuracy_history = Append(@, test_acc_now),
                        !.network = Some(after_test),
                        !.needs_repaint = TRUE]
                /\ threads' = [threads EXCEPT ![t] =
                        [th EXCEPT !.network = after_test,
                                   !.epoch = @ + 1,
                                   !.pc = LoopHead(th.epoch + 1, th.config.epochs)]]
        /\ mutex' = <<>>
        /\ UNCHANGED <<core_vars, ui, file>>

\* lines 248-255
ThreadComplete(t) ==
    /\ ThreadHolds(t, "complete")
    /\ state' = [state EXCEPT !.progress = 100,
                              !.status = Status("Training complete"),
                              !.training_state = "Idle",
                              !.network = Some(threads[t].network),
                              !.needs_repaint = TRUE]
    /\ threads' = [threads EXCEPT ![t] =
            [@ EXCEPT !.outcome = "complete", !.pc = "returned"]]
    /\ mutex' = <<>>
    /\ UNCHANGED <<core_vars, ui, file>>

ThreadNext(t) ==
    \/ ThreadLock(t)
    \/ ThreadReadConfig(t)
    \/ ThreadInit(t)
    \/ ThreadCheckStop(t)
    \/ ThreadStatus(t)
    \/ ThreadTrainBegin(t)
    \/ ThreadTrainSample(t)
    \/ ThreadTrainEnd(t)
    \/ ThreadPublish(t)
    \/ ThreadComplete(t)

NextGui == UiNext \/ \E t \in Threads : ThreadNext(t)

SpecGui == InitGui /\ [][NextGui]_vars

\* ------------------------------------------------------------------------
\* Properties of the GUI
\* ------------------------------------------------------------------------
\* the places of the training thread inside an epoch: after the stop check of
\* the epoch, before the step of the loop to the next one
EpochBody == {"status", "train", "sample", "publish"}

\* C6: training never begins with an invalid configuration: no training thread
\* is ever at work with a layer list of fewer than two entries or with an
\* activation list whose length is not the layer count minus one
C6_InvalidConfigNeverTrains ==
    \A t \in Threads :
        threads[t].pc \notin {"unborn", "read_config"} => ConfigValid(threads[t].config)

\* C7: the training thread reads training_state once per epoch, at the head of
\* the epoch and before the epoch's call of train; when it reads Stopped it
\* returns in that step with its network and its epoch count as they were, and
\* it does nothing afterwards; from inside an epoch it only goes on to the end of
\* the epoch, whatever training_state has become
C7_StopCheckedOncePerEpoch ==
    /\ [](\A t \in Threads :
            /\ threads[t].pc = "check" =>
                    /\ threads[t].checks = threads[t].epoch
                    /\ Len(threads[t].reports) = threads[t].epoch
            /\ threads[t].pc \in EpochBody => threads[t].checks = threads[t].epoch + 1
            /\ threads[t].pc \in {"status", "train"} =>
                    Len(threads[t].reports) = threads[t].epoch)
    /\ [][\A t \in Threads :
            /\ (ThreadHolds(t, "check") /\ state.training_state = "Stopped"
                    /\ threads'[t] # threads[t]) =>
                        /\ threads'[t].pc = "returned"
                        /\ threads'[t].network = threads[t].network
                        /\ threads'[t].epoch = threads[t].epoch
            /\ threads[t].pc = "returned" => threads'[t] = threads[t]
            /\ (threads[t].pc \in EpochBody /\ threads'[t].pc # threads[t].pc) =>
                        threads'[t].pc \in EpochBody \cup {"check", "complete"}]_vars

\* a thread has passed its first stop check, run an epoch to its end and
\* published it, and has returned at its second stop check, which read Stopped
C7_Witness ==
    \E t \in Threads :
        /\ threads[t].pc = "returned"
        /\ threads[t].outcome = "stopped"
        /\ threads[t].epoch = 1
        /\ threads[t].checks = 2
        /\ Len(state.train_accuracy_history) = 1

C9_TwoTerminalOutcomes ==
    /\ [](\A t \in Threads :
            /\ threads[t].pc # "panicked"
            /\ threads[t].pc # "returned" => threads[t].outcome = "none"
            /\ threads[t].pc = "returned" =>
                \/ /\ threads[t].outcome = "complete"
                   /\ threads[t].epoch = threads[t].config.epochs
                   /\ Len(threads[t].reports) = threads[t].config.epochs
                \/ /\ threads[t].outcome = "stopped"
                   /\ threads[t].epoch < threads[t].config.epochs
                   /\ Len(threads[t].reports) = threads[t].epoch)
    /\ [][\A t \in Threads :
            /\ (threads'[t].outcome = "stopped" /\ threads[t].outcome = "none") =>
                    /\ ThreadHolds(t, "check")
                    /\ state.training_state = "Stopped"
                    /\ state'.status = Status("Training stopped by user.")
            /\ (threads'[t].outcome = "complete" /\ threads[t].outcome = "none") =>
                    /\ ThreadHolds(t, "complete")
                    /\ state'.status = Status("Training complete")
            /\ threads[t].pc = "returned" =>
                    /\ threads'[t].epoch = threads[t].epoch
                    /\ threads'[t].outcome = threads[t].outcome
                    /\ threads'[t].pc = "returned"]_vars

\* one thread has returned stopped after one of its two epochs and another has
\* returned complete after both
C9_Witness ==
    \E t, o \in Threads :
        /\ threads[t].pc = "returned"
        /\ threads[t].outcome = "stopped"
        /\ threads[t].epoch = 1
        /\ threads[o].pc = "returned"
        /\ threads[o].outcome = "complete"
        /\ threads[o].epoch = 2

\* C11: the reports of a run carry the indices of its epochs, in increasing
\* order: the i-th report that train writes for a training thread carries i
C11_ReportsCarryEpochIndex ==
    \A t \in Threads :
        \A i \in 1..Len(threads[t].reports) : threads[t].reports[i].epoch = i

\* ------------------------------------------------------------------------
\* Properties of forward_pass and predict
\* ------------------------------------------------------------------------
\* the fields of the neurons that are not scratch values of the forward pass
NotScratch(ls) ==
    [m \in DOMAIN ls |->
        [n \in DOMAIN ls[m].neurons |->
            [weights |-> ls[m].neurons[n].weights,
             bias |-> ls[m].neurons[n].bias,
             delta |-> ls[m].neurons[n].delta]]]

\* C12: no step of forward_pass, and no evaluation, changes a weight or a bias
\* (or a delta) of any neuron: raw_value and activated_value are all they write
C12_ForwardPassKeepsParams ==
    [][(pc \in {"fwd_input", "fwd_layer", "evaluate"}) =>
            (NotScratch(layers') = NotScratch(layers)
                /\ NumLayers(layers') = NumLayers(layers))]_vars

\* an evaluation has run its forward passes on a network that training has
\* changed: the scratch values are those of the last test sample
C12_Witness ==
    /\ pc = "report"
    /\ epoch = 1
    /\ NumLayers(layers) = 3
    /\ Params(layers) # Params(call_state.layers)
    /\ layers[0].neurons[1].raw_value = test_set[Size(test_set) - 1].inputs[1]
    /\ layers[0].neurons[1].raw_value # shuffled[Size(shuffled) - 1].inputs[1]

\* the scratch values a forward pass leaves
Scratch(ls) ==
    [m \in DOMAIN ls |->
        [n \in DOMAIN ls[m].neurons |->
            [raw_value |-> ls[m].neurons[n].raw_value,
             activated_value |-> ls[m].neurons[n].activated_value]]]

\* prior scratch values: v picks one assignment, different in every neuron
ScratchChoices == {0 - Scale, 1, Scale + 1}

\* the network ls with other raw values, activated values and deltas
Scrambled(ls, v) ==
    [m \in DOMAIN ls |->
        [ls[m] EXCEPT !.neurons =
            [n \in DOMAIN ls[m].neurons |->
                [ls[m].neurons[n] EXCEPT !.raw_value = v * (m + n + 1),
                                         !.activated_value = m - v * (n + 2),
                                         !.delta = v + n]]]]

\* C13: forward_pass is a function of weights, biases and input: when the call
\* has returned, the raw and activated values of all neurons are those that
\* forward_pass leaves, for the same input, in any network with the same weights
\* and biases and other prior scratch values
C13_ForwardPassDeterministic ==
    (caller = "forward_pass" /\ pc = "done") =>
        \A v \in ScratchChoices :
            /\ ~ForwardPassPanics(Scrambled(call_state.layers, v), fp_inputs)
            /\ Scratch(ForwardPass(Scrambled(call_state.layers, v), fp_inputs))
                    = Scratch(layers)

\* forward_pass has returned on a network with two hidden layers, whose scratch
\* values it has changed
C13_Witness ==
    /\ caller = "forward_pass"
    /\ pc = "done"
    /\ NumLayers(layers) = 4
    /\ Size(fp_inputs) = 2
    /\ \E n \in DOMAIN layers[2].neurons : layers[2].neurons[n].raw_value # 0
    /\ Params(layers) = Params(call_state.layers)

\* the raw values of layer m
RawValues(ls, m) == [n \in DOMAIN ls[m].neurons |-> ls[m].neurons[n].raw_value]

\* C14: when forward_pass has returned on a network of two or more layers,
\* layer 0 holds the inputs as raw and as activated values, every neuron of a
\* layer between the first and the last holds the weighted sum of the previous
\* layer's activations plus its bias and the sigmoid of that sum, and the
\* activated values of the output layer are the softmax of its raw values
C14_ForwardPassResult ==
    (caller = "forward_pass" /\ pc = "done" /\ NumLayers(layers) >= 2) =>
        LET last == NumLayers(layers) - 1
        IN  /\ \A i \in DOMAIN layers[0].neurons :
                    /\ layers[0].neurons[i].raw_value = fp_inputs[i]
                    /\ layers[0].neurons[i].activated_value = fp_inputs[i]
            /\ \A m \in 1..(last - 1) : \A n \in DOMAIN layers[m].neurons :
                    LET neuron == layers[m].neurons[n]
                    IN  /\ neuron.raw_value =
                                Dot(neuron.weights, activated_values(layers[m - 1]))
                                    + neuron.bias
                        /\ neuron.activated_value = sigmoid(neuron.raw_value)
            /\ \A i \in DOMAIN layers[last].neurons :
                    layers[last].neurons[i].activated_value
                        = softmax(RawValues(layers, last))[i]

\* forward_pass has returned on a network with a hidden layer of three neurons,
\* and the output activations differ from the sigmoids of the raw values
C14_Witness ==
    /\ caller = "forward_pass"
    /\ pc = "done"
    /\ NumLayers(layers) = 3
    /\ Size(layers[1].neurons) = 3
    /\ \E i \in DOMAIN layers[2].neurons :
            layers[2].neurons[i].activated_value # sigmoid(layers[2].neurons[i].raw_value)
    /\ layers[2].neurons[0].raw_value # layers[2].neurons[1].raw_value

\* ------------------------------------------------------------------------
\* A click on Predict, for any network in the state and any sample
\* ------------------------------------------------------------------------
\* the networks that Load Model can have put into the state: of one to four
\* layers, as initialised or with scratch values of earlier passes
PredictNetworks ==
    LET fresh == {initialize_network(sizes, Arr(<<>>), s) :
                    sizes \in LayerConfigs \cup {Arr(<<2>>)}, s \in Seeds}
    IN  fresh \cup {Scrambled(ls, v) : ls \in fresh, v \in ScratchChoices}

PredictSamples == {SampleA, SampleB, SampleC}

\* update has reached line 396 in a frame with the Predict button clicked
InitPredict ==
    /\ caller = "predict"
    /\ pc = "gui"
    /\ layers = <<>>
    /\ training_set = <<>>
    /\ test_set = <<>>
    /\ epochs = 0
    /\ learning_rate = 0
    /\ fp_inputs = <<>>
    /\ epoch = 0
    /\ shuffled = <<>>
    /\ k = 0
    /\ l = 0
    /\ total_loss = 0
    /\ train_acc = 0
    /\ test_acc = 0
    /\ reports = <<>>
    /\ trace = <<>>
    /\ call_state = <<>>
    /\ bp_entry = <<>>
    /\ \E ls \in PredictNetworks : \E sample \in PredictSamples :
            state = [InitState EXCEPT !.network = Some(ls),
                                      !.test_set = Arr(<<sample>>)]
    /\ mutex = <<>>
    /\ ui = [UiIdle(MaxFrames) EXCEPT
                !.pc = "predict",
                !.input = [NoInput EXCEPT !.panel = "predict", !.click = "predict"],
                !.network_exists = TRUE]
    /\ threads = [t \in Threads |-> Unborn]
    /\ file = None

NextPredict == UiLock \/ UiPredict \/ UiResult \/ UiRead

SpecPredict == InitPredict /\ [][NextPredict]_vars

\* the sample of the Predict click
ShownSample == state.test_set[state.selected_sample_index]

\* the output activations of one forward pass of the state's network on the
\* sample
OutputOfPass ==
    LET after == ForwardPass(Unwrap(state.network), ShownSample.inputs)
    IN  activated_values(after[NumLayers(after) - 1])

\* C15: the label that predict has returned is an index of the output layer at
\* which the activated value, as one forward pass on the sample leaves it, is the
\* maximum
C15_PredictIsArgmax ==
    (caller = "predict" /\ ui.pc \in {"result", "prediction"}) =>
        /\ ui.predicted_label \in DOMAIN OutputOfPass
        /\ \A j \in DOMAIN OutputOfPass :
                OutputOfPass[j] <= OutputOfPass[ui.predicted_label]

\* predict has returned label 0 for a network of three layers whose output
\* neuron 0 has the strictly largest activation
C15_Witness ==
    /\ caller = "predict"
    /\ ui.pc = "result"
    /\ NumLayers(Unwrap(state.network)) = 3
    /\ ui.predicted_label = 0
    /\ OutputOfPass[0] > OutputOfPass[1]

\* C16: the step of the Predict click that calls predict leaves the network of
\* the state as it was, in every field of every neuron, and the rest of the state
\* with it
C16_PredictKeepsNetwork ==
    [][(UiHolds("predict") /\ ui'.pc # "predict") =>
            (state'.network = state.network /\ state' = state)]_vars

\* predict has returned for a network whose scratch values are not those its
\* forward pass leaves
C16_Witness ==
    /\ caller = "predict"
    /\ ui.pc = "result"
    /\ IsSome(state.network)
    /\ Unwrap(state.network)
            # ForwardPass(Unwrap(state.network), ShownSample.inputs)
    /\ NumLayers(Unwrap(state.network)) = 4

\* ------------------------------------------------------------------------
\* Properties of the GUI: threads, stop requests, the mutex, the histories
\* ------------------------------------------------------------------------
\* the training threads that have been spawned and have not returned
Alive == {t \in Threads : threads[t].pc \notin {"unborn", "returned", "panicked"}}

\* C17: at most one training thread is alive at any time
C17_OneTrainingThread == Cardinality(Alive) <= 1

\* C18: a stop request is acknowledged: while training_state is Stopped a
\* training thread is alive that will read it or end the run
C18_StopHasAcknowledger == state.training_state = "Stopped" => Alive # {}

Holders == {<<"ui">>} \cup {<<"thread", t>> : t \in Threads}

UiRequests == ui.pc \in UiLockRegions /\ mutex # <<"ui">>

ThreadRequests(t) == threads[t].pc \in ThreadLockRegions /\ mutex # <<"thread", t>>

\* C19: the mutex is only taken when free, its holder is inside one block, and
\* the holder's next step leaves the block and releases the mutex: nobody asks
\* for the mutex while holding it, and whoever asks for it waits for a holder
\* whose next step frees it
C19_MutexNeverDeadlocks ==
    /\ [](mutex = <<"ui">> => ui.pc \in UiLockRegions)
    /\ [](\A t \in Threads :
            mutex = <<"thread", t>> => threads[t].pc \in ThreadLockRegions)
    /\ [][(mutex' # mutex /\ mutex' \in Holders) => mutex = <<>>]_vars
    /\ [][(mutex = <<"ui">> /\ ui' # ui) => mutex' = <<>>]_vars
    /\ [][\A t \in Threads :
            (mutex = <<"thread", t>> /\ threads'[t] # threads[t]) => mutex' = <<>>]_vars

\* the frame waits at a block while a training thread holds the mutex, and a
\* second training thread waits too
C19_Witness ==
    /\ UiRequests
    /\ \E t \in Threads : mutex = <<"thread", t>>
    /\ \E t \in Threads : ThreadRequests(t)

\* C20: the two accuracy histories have the same length, and that length
\* never exceeds the number of epochs of the configuration
C20_HistoriesWithinEpochs ==
    /\ Len(state.train_accuracy_history) = Len(state.test_accuracy_history)
    /\ Len(state.train_accuracy_history) <= state.config.epochs

\* ------------------------------------------------------------------------
\* Properties of back_propagate: what it writes, the order of its layers
\* ------------------------------------------------------------------------
\* C21: no step of back_propagate changes a raw_value or an activated_value,
\* or any field of a neuron of layer 0; so when train accumulates the loss the
\* raw and activated values are those of the forward pass of this sample on
\* the weights and biases back_propagate began with, though it has changed them
C21_BackPropagateKeepsActivations ==
    /\ [][(pc \in {"bp_output", "bp_hidden", "bp_update"}) =>
            (/\ Scratch(layers') = Scratch(layers)
             /\ layers'[0] = layers[0]
             /\ NumLayers(layers') = NumLayers(layers))]_vars
    /\ [](pc = "loss" => Scratch(layers) = Scratch(ForwardPass(bp_entry, FwdArg)))

\* the loss is about to be accumulated on a network with a hidden layer whose
\* parameters back_propagate has changed, and a forward pass on the new
\* parameters would give another loss
C21_Witness ==
    /\ pc = "loss"
    /\ NumLayers(layers) = 3
    /\ Params(layers) # Params(bp_entry)
    /\ \E n \in DOMAIN layers[1].neurons :
            layers[1].neurons[n].delta # bp_entry[1].neurons[n].delta
    /\ calculate_loss(ForwardPass(layers, FwdArg), TargetArg)
            # calculate_loss(layers, TargetArg)

\* the output deltas of this call: activated value minus this sample's target
OutputDeltasOfCall ==
    LET out == NumLayers(layers) - 1
    IN  \A i \in DOMAIN layers[out].neurons :
            layers[out].neurons[i].delta
                = layers[out].neurons[i].activated_value - TargetArg[i]

\* the deltas of hidden layer m follow from the deltas layer m + 1 holds now
HiddenDeltasFromNext(m) ==
    \A j \in DOMAIN layers[m].neurons :
        layers[m].neurons[j].delta
            = Mul(Sum([i \in DOMAIN layers[m + 1].neurons |->
                        Mul(layers[m + 1].neurons[i].delta,
                            layers[m + 1].neurons[i].weights[j])]),
                  sigmoid_derivative(layers[m].neurons[j].raw_value))

\* the deltas of all layers above layer m are those of the running call
DeltasOfCallAbove(m) ==
    /\ OutputDeltasOfCall
    /\ \A h \in (m + 1)..(NumLayers(layers) - 2) : HiddenDeltasFromNext(h)

\* C22: back_propagate goes through the hidden layers from the last one down
\* to layer 1, one index at a time, and the delta of layer l comes from the
\* deltas this call has already put into layer l + 1; a network without a
\* hidden layer gets its output deltas and no others
C22_HiddenLayersInReverse ==
    /\ [](pc = "bp_hidden" =>
            /\ NumLayers(layers) > 2
            /\ l \in 1..(NumLayers(layers) - 2)
            /\ DeltasOfCallAbove(l))
    /\ []((pc = "bp_update" /\ l = 1) => DeltasOfCallAbove(0))
    /\ [][(pc = "bp_output" /\ pc' = "bp_hidden") => l' = NumLayers(layers) - 2]_vars
    /\ [][(pc = "bp_hidden" /\ pc' = "bp_hidden") => l' = l - 1]_vars
    /\ [][(pc = "bp_hidden" /\ pc' \notin {"bp_hidden", "panic"}) =>
            (l = 1 /\ pc' = "bp_update")]_vars
    /\ [][(pc = "bp_output" /\ NumLayers(layers) = 2 /\ pc' # "panic") =>
            (/\ pc' = "bp_update"
             /\ \A m \in DOMAIN layers : m # 1 => layers'[m] = layers[m])]_vars

\* all deltas of a call exist in a network with two hidden layers, and the
\* call found other deltas there, left by the call before it
C22_Witness ==
    /\ pc = "bp_update"
    /\ l = 1
    /\ NumLayers(layers) = 4
    /\ \E n \in DOMAIN layers[2].neurons :
            /\ bp_entry[2].neurons[n].delta # 0
            /\ bp_entry[2].neurons[n].delta # layers[2].neurons[n].delta
    /\ \E n \in DOMAIN layers[1].neurons :
            layers[1].neurons[n].delta # bp_entry[1].neurons[n].delta

====
